---- MODULE Spec2Model ----
(***************************************************************************)
(* Model of the embedding-collection planning layer of HugeCTR             *)
(* (src/HugeCTR/embedding/common.hpp): the EmbeddingCollectionParam        *)
(* descriptor (lookup grouping, shard queries), EmbeddingOutputAttr,       *)
(* WgradAttr and the wgrad initializers.                                   *)
(*                                                                         *)
(* C++ ids are 0-based, TLA+ sequences 1-based: lookup id l is element     *)
(* l + 1 of lookup_params, device g is row g + 1 of shard_matrix, table t  *)
(* is column t + 1 of a row, group id k is element k + 1 of                *)
(* grouped_lookup_params.                                                  *)
(***************************************************************************)
EXTENDS Integers, Sequences, FiniteSets, TLC

(***************************************************************************)
(* Bounds of the model.                                                    *)
(***************************************************************************)
MaxLookup == 2
NumTable == 2
MaxTableGroup == 2
NumGpu == 2

(***************************************************************************)
(* Enumerations (common.hpp:126-144).                                      *)
(***************************************************************************)
\* enum class Combiner : char { Sum, Average, Concat }
Combiner == {"Sum", "Average", "Concat"}

\* A Combiner is a char: a value outside the three enumerators can be stored
\* in a LookupParam (static_cast); "Unsupported" stands for any such value.
CombinerValues == Combiner \cup {"Unsupported"}

TablePlacementStrategy == {"DataParallel", "ModelParallel"}

EmbeddingType == {"Sparse", "Dense", "FrequentDense", "InfrequentDense"}

DenseCompressionStrategy == {"Unique", "CacheFrequent"}

(***************************************************************************)
(* Plain data (common.hpp:146-183).                                        *)
(***************************************************************************)
LookupParam(lookup_id, table_id, combiner, max_hotness, ev_size) ==
    [lookup_id |-> lookup_id, table_id |-> table_id, combiner |-> combiner,
     max_hotness |-> max_hotness, ev_size |-> ev_size]

GroupedTableParam(tps, table_ids) ==
    [table_placement_strategy |-> tps, table_ids |-> table_ids]

GroupedLookupParam(table_idx, tps, lookup_ids, embedding_type) ==
    [grouped_table_idx |-> table_idx, table_placement_strategy |-> tps,
     lookup_ids |-> lookup_ids, embedding_type |-> embedding_type]

VARIABLES
    pc,                           \* "config" | "constructed" | "failed"
    num_lookup,                   \* int num_lookup, given apart from lookup_params
    lookup_params,                \* std::vector<LookupParam>
    shard_matrix,                 \* std::vector<std::vector<int>>, num_gpus * num_table
    grouped_table_params,         \* std::vector<GroupedTableParam>
    grouped_lookup_params,        \* std::vector<GroupedLookupParam>
    dense_compression_strategy_,  \* DenseCompressionStrategy member
    error,                        \* the error the last operation threw, or "none"
    call,                         \* the last query made of the descriptor, with its results
    wgrad_attr,                   \* a WgradAttr
    output_attr,                  \* an EmbeddingOutputAttr
    initializer,                  \* a WgradInitializer / AllreduceWgradInitializer
    wgrad                         \* the Wgrad of a group

vars == <<pc, num_lookup, lookup_params, shard_matrix, grouped_table_params,
          grouped_lookup_params, dense_compression_strategy_, error, call,
          wgrad_attr, output_attr, initializer, wgrad>>

descriptor == <<pc, num_lookup, lookup_params, shard_matrix, grouped_table_params,
                grouped_lookup_params, dense_compression_strategy_>>

(***************************************************************************)
(* Helpers for the standard library calls the code makes.                  *)
(***************************************************************************)
\* std::find(v.begin(), v.end(), x) != v.end()
Find(v, x) == \E i \in 1..Len(v) : v[i] = x

Range(v) == {v[i] : i \in 1..Len(v)}

SeqsUpTo(S, n) == UNION {[1..k -> S] : k \in 0..n}

\* The ascending vector of a set of ints (how the inputs list table ids).
RECURSIVE AscendingSeq(_)
AscendingSeq(S) ==
    IF S = {} THEN <<>>
    ELSE LET m == CHOOSE x \in S : \A y \in S : x <= y
         IN <<m>> \o AscendingSeq(S \ {m})

(***************************************************************************)
(* EmbeddingCollectionParam constructor body, common.hpp:244-285.          *)
(***************************************************************************)
\* Variants of the inner loop with one plausible slip each.
\* No `continue` for a lookup of another table group's table.
RECURSIVE PartitionLookups_NoTableFilter(_, _, _, _, _)
PartitionLookups_NoTableFilter(lps, nlookup, table_ids, lookup_id, acc) ==
    IF lookup_id >= nlookup THEN acc
    ELSE LET combiner == lps[lookup_id + 1].combiner
         IN IF combiner = "Concat"
            THEN PartitionLookups_NoTableFilter(lps, nlookup, table_ids, lookup_id + 1,
                     [acc EXCEPT !.dense_lookup_ids = Append(@, lookup_id)])
            ELSE IF combiner = "Sum" \/ combiner = "Average"
            THEN PartitionLookups_NoTableFilter(lps, nlookup, table_ids, lookup_id + 1,
                     [acc EXCEPT !.sparse_lookup_ids = Append(@, lookup_id)])
            ELSE [acc EXCEPT !.thrown = TRUE]

\* An unsupported combiner is skipped instead of thrown on.
RECURSIVE PartitionLookups_NoThrow(_, _, _, _, _)
PartitionLookups_NoThrow(lps, nlookup, table_ids, lookup_id, acc) ==
    IF lookup_id >= nlookup THEN acc
    ELSE LET table_id == lps[lookup_id + 1].table_id
             combiner == lps[lookup_id + 1].combiner
         IN IF ~Find(table_ids, table_id)
            THEN PartitionLookups_NoThrow(lps, nlookup, table_ids, lookup_id + 1, acc)
            ELSE IF combiner = "Concat"
            THEN PartitionLookups_NoThrow(lps, nlookup, table_ids, lookup_id + 1,
                     [acc EXCEPT !.dense_lookup_ids = Append(@, lookup_id)])
            ELSE IF combiner = "Sum" \/ combiner = "Average"
            THEN PartitionLookups_NoThrow(lps, nlookup, table_ids, lookup_id + 1,
                     [acc EXCEPT !.sparse_lookup_ids = Append(@, lookup_id)])
            ELSE PartitionLookups_NoThrow(lps, nlookup, table_ids, lookup_id + 1, acc)

\* The inner loop, lines 251-265, from lookup_id on, while lookup_id <
\* num_lookup (nlookup here; the constructor never compares it with
\* lookup_params.size()): acc holds sparse_lookup_ids, dense_lookup_ids and
\* whether HCTR_OWN_THROW was reached.
RECURSIVE PartitionLookups(_, _, _, _, _)
PartitionLookups(lps, nlookup, table_ids, lookup_id, acc) ==
    IF lookup_id >= nlookup THEN acc
    ELSE LET table_id == lps[lookup_id + 1].table_id
             combiner == lps[lookup_id + 1].combiner
         IN IF ~Find(table_ids, table_id)
            THEN PartitionLookups(lps, nlookup, table_ids, lookup_id + 1, acc)
            ELSE IF combiner = "Concat"
            THEN PartitionLookups(lps, nlookup, table_ids, lookup_id + 1,
                     [acc EXCEPT !.dense_lookup_ids = Append(@, lookup_id)])
            ELSE IF combiner = "Sum" \/ combiner = "Average"
            THEN PartitionLookups(lps, nlookup, table_ids, lookup_id + 1,
                     [acc EXCEPT !.sparse_lookup_ids = Append(@, lookup_id)])
            ELSE [acc EXCEPT !.thrown = TRUE]

\* Variant of EmitSparse without the emptiness test of line 266.
EmitSparse_NoGuard(grouped_table_id, tps, sparse_lookup_ids) ==
    <<GroupedLookupParam(grouped_table_id, tps, sparse_lookup_ids, "Sparse")>>

\* Lines 266-269: the Sparse group of one table group.
EmitSparse(grouped_table_id, tps, sparse_lookup_ids) ==
    IF sparse_lookup_ids # <<>>
    THEN <<GroupedLookupParam(grouped_table_id, tps, sparse_lookup_ids, "Sparse")>>
    ELSE <<>>

\* Variant of EmitDense that takes the CacheFrequent branch of lines 274-278
\* whatever the strategy.
EmitDense_AlwaysCacheFrequent(grouped_table_id, tps, dense_lookup_ids, strategy) ==
    IF dense_lookup_ids = <<>> THEN [thrown |-> FALSE, groups |-> <<>>]
    ELSE [thrown |-> FALSE,
          groups |-> <<GroupedLookupParam(grouped_table_id, tps,
                                          dense_lookup_ids, "InfrequentDense"),
                       GroupedLookupParam(-1, tps,
                                          dense_lookup_ids, "FrequentDense")>>]

\* Lines 270-283: the dense group(s) of one table group under `strategy`.
EmitDense(grouped_table_id, tps, dense_lookup_ids, strategy) ==
    IF dense_lookup_ids = <<>> THEN [thrown |-> FALSE, groups |-> <<>>]
    ELSE IF strategy = "Unique"
    THEN [thrown |-> FALSE,
          groups |-> <<GroupedLookupParam(grouped_table_id, tps,
                                          dense_lookup_ids, "Dense")>>]
    ELSE IF strategy = "CacheFrequent"
    THEN [thrown |-> FALSE,
          groups |-> <<GroupedLookupParam(grouped_table_id, tps,
                                          dense_lookup_ids, "InfrequentDense"),
                       GroupedLookupParam(-1, tps,
                                          dense_lookup_ids, "FrequentDense")>>]
    ELSE [thrown |-> TRUE, groups |-> <<>>]

\* The outer loop, lines 244-284, from grouped_table_id on; out is
\* grouped_lookup_params so far.
RECURSIVE GroupLookups(_, _, _, _, _, _)
GroupLookups(lps, nlookup, gtps, strategy, grouped_table_id, out) ==
    IF grouped_table_id >= Len(gtps) THEN [thrown |-> FALSE, groups |-> out]
    ELSE LET table_param == gtps[grouped_table_id + 1]
             part == PartitionLookups(lps, nlookup, table_param.table_ids, 0,
                         [sparse_lookup_ids |-> <<>>, dense_lookup_ids |-> <<>>,
                          thrown |-> FALSE])
             dense == EmitDense(grouped_table_id,
                                table_param.table_placement_strategy,
                                part.dense_lookup_ids, strategy)
         IN IF part.thrown \/ dense.thrown
            THEN [thrown |-> TRUE, groups |-> <<>>]
            ELSE GroupLookups(lps, nlookup, gtps, strategy, grouped_table_id + 1,
                     out \o EmitSparse(grouped_table_id,
                                       table_param.table_placement_strategy,
                                       part.sparse_lookup_ids)
                         \o dense.groups)

(***************************************************************************)
(* Shard queries, common.hpp:287-313.                                      *)
(***************************************************************************)
\* EmbeddingCollectionParam::lookup_id_in_group, lines 287-291
lookup_id_in_group(groups, grouped_id, lookup_id) ==
    LET group_param == groups[grouped_id + 1]
    IN Find(group_param.lookup_ids, lookup_id)

\* Variant of has_table_shard that tests the entry against 1, as line 304 does.
has_table_shard_EqOne(lps, matrix, groups, gpu_id, grouped_id, lookup_id) ==
    LET table_id == lps[lookup_id + 1].table_id
        has_portion == (matrix[gpu_id + 1][table_id + 1] = 1)
    IN lookup_id_in_group(groups, grouped_id, lookup_id) /\ has_portion

\* EmbeddingCollectionParam::has_table_shard, lines 293-297
has_table_shard(lps, matrix, groups, gpu_id, grouped_id, lookup_id) ==
    LET table_id == lps[lookup_id + 1].table_id
        has_portion == (matrix[gpu_id + 1][table_id + 1] # 0)
    IN lookup_id_in_group(groups, grouped_id, lookup_id) /\ has_portion

\* The loop of lines 302-307 from ggpu_id on: the devices pushed to shard_gpus.
RECURSIVE ShardGpus(_, _, _)
ShardGpus(matrix, table_id, ggpu_id) ==
    IF ggpu_id >= Len(matrix) THEN <<>>
    ELSE (IF matrix[ggpu_id + 1][table_id + 1] = 1 THEN <<ggpu_id>> ELSE <<>>)
         \o ShardGpus(matrix, table_id, ggpu_id + 1)

\* std::distance(v.begin(), std::find(v.begin(), v.end(), x)), x in v
Distance(v, x) ==
    (CHOOSE i \in 1..Len(v) : v[i] = x /\ \A j \in 1..(i - 1) : v[j] # x) - 1

\* EmbeddingCollectionParam::get_table_shard_id, lines 299-313.  shard_id and
\* num_shard are the values of the caller's ints before the call; the result
\* holds their values after it and whether HCTR_CHECK_HINT failed.
get_table_shard_id(matrix, gpu_id, table_id, shard_id, num_shard) ==
    LET shard_gpus == ShardGpus(matrix, table_id, 0)
    IN IF ~Find(shard_gpus, gpu_id)
       THEN [thrown |-> TRUE, shard_id |-> shard_id, num_shard |-> num_shard]
       ELSE [thrown |-> FALSE, shard_id |-> Distance(shard_gpus, gpu_id),
             num_shard |-> Len(shard_gpus)]

(***************************************************************************)
(* EmbeddingOutputAttr, common.hpp:349-374.  init() is declared here and   *)
(* defined elsewhere: it is modelled from the specification (4.2).         *)
(***************************************************************************)
\* A data member of scalar type without an initializer holds an
\* indeterminate value after default construction: an int member any int.
IndeterminateInts == (-2147483647 - 1)..2147483647

\* The content of a member that nothing has written yet.  The state keeps no
\* value for such a member: Indeterminate in an int member stands for every
\* element of IndeterminateInts and in a bool member for both truth values,
\* so a state with Indeterminate members describes every object that agrees
\* with it on the other members.  Indeterminate is no int and no truth value:
\* a step or a property that used the content of such a member would not
\* evaluate.
Indeterminate == "indeterminate"

\* A default-constructed EmbeddingOutputAttr: the vectors are empty but for
\* h_id_to_ev_start_indices{0} (line 357); num_lookup (353),
\* num_elements_per_sample (362), max_ev_size (365) and is_ragged (366) have
\* no initializer and hold the indeterminate values given: any ints, and a
\* bool whose storage may hold no valid bool and then reads as either truth
\* value; given Indeterminate, the attr stands for all of these at once.
\* inited tells whether init() ran.
DefaultEmbeddingOutputAttr(any_lookup, any_elements, any_size, any_ragged) ==
    [inited |-> FALSE, num_lookup |-> any_lookup,
     h_id_to_ev_size |-> <<>>, h_id_to_combiner |-> <<>>,
     h_id_to_ev_start_indices |-> <<0>>,
     num_elements_per_sample |-> any_elements,
     max_ev_size |-> any_size, is_ragged |-> any_ragged]

\* No EmbeddingOutputAttr has been created.
NoEmbeddingOutputAttr == [inited |-> FALSE]

\* std::partial_sum over v
RECURSIVE PartialSum(_)
PartialSum(v) ==
    IF Len(v) <= 1 THEN v
    ELSE LET front == PartialSum(SubSeq(v, 1, Len(v) - 1))
         IN Append(front, front[Len(front)] + v[Len(v)])

MaxOf(S) == IF S = {} THEN 0 ELSE CHOOSE x \in S : \A y \in S : y <= x

\* Variant of init that stores the vector sizes as the start offsets, without
\* the prefix sum.
EmbeddingOutputAttrInit_NoPrefixSum(attr, lps) ==
    LET sizes == [i \in 1..Len(lps) |-> lps[i].ev_size]
    IN [inited |-> TRUE,
        num_lookup |-> Len(lps),
        h_id_to_ev_size |-> attr.h_id_to_ev_size \o sizes,
        h_id_to_combiner |->
            attr.h_id_to_combiner \o [i \in 1..Len(lps) |-> lps[i].combiner],
        h_id_to_ev_start_indices |-> attr.h_id_to_ev_start_indices \o sizes,
        num_elements_per_sample |->
            IF sizes = <<>> THEN 0 ELSE PartialSum(sizes)[Len(sizes)],
        max_ev_size |-> MaxOf(Range(sizes)),
        is_ragged |-> Cardinality(Range(sizes)) > 1]

\* EmbeddingOutputAttr::init: per lookup in declaration order the vector size
\* and combiner code, the start offsets as the prefix sums of the sizes
\* appended to the initial 0, and whether the sizes differ.
EmbeddingOutputAttrInit(attr, lps) ==
    LET sizes == [i \in 1..Len(lps) |-> lps[i].ev_size]
        starts == PartialSum(attr.h_id_to_ev_start_indices \o sizes)
    IN [inited |-> TRUE,
        num_lookup |-> Len(lps),
        h_id_to_ev_size |-> attr.h_id_to_ev_size \o sizes,
        h_id_to_combiner |->
            attr.h_id_to_combiner \o [i \in 1..Len(lps) |-> lps[i].combiner],
        h_id_to_ev_start_indices |-> starts,
        num_elements_per_sample |->
            IF sizes = <<>> THEN 0 ELSE PartialSum(sizes)[Len(sizes)],
        max_ev_size |-> MaxOf(Range(sizes)),
        is_ragged |-> Cardinality(Range(sizes)) > 1]

(***************************************************************************)
(* WgradAttr, common.hpp:383-403.  init() is declared here and defined     *)
(* elsewhere: it is modelled from the specification (4.3).                 *)
(***************************************************************************)
\* A default-constructed WgradAttr: the tensors are empty; num_table (line
\* 384) and num_lookup (385) have no initializer and hold the indeterminate
\* values given, any ints; given Indeterminate, the attr stands for all of
\* these at once.  inited and grouped_id tell whether and for which group
\* init() ran.
DefaultWgradAttr(any_num_table, any_num_lookup) ==
    [inited |-> FALSE, grouped_id |-> -1,
     num_table |-> any_num_table, num_lookup |-> any_num_lookup,
     lookup_id_to_table_ids |-> <<>>, sorted_lookup_ids |-> <<>>,
     sorted_table_ids |-> <<>>, sorted_unique_table_ids |-> <<>>]

\* No WgradAttr has been created.
NoWgradAttr == [inited |-> FALSE]

\* The lookup ids of S in ascending table id, ties in ascending lookup id
\* (the stable sort of the group's lookups by table).
RECURSIVE SortByTable(_, _)
SortByTable(lps, S) ==
    IF S = {} THEN <<>>
    ELSE LET m == CHOOSE x \in S : \A y \in S :
                      \/ lps[x + 1].table_id < lps[y + 1].table_id
                      \/ /\ lps[x + 1].table_id = lps[y + 1].table_id
                         /\ x <= y
         IN <<m>> \o SortByTable(lps, S \ {m})

\* std::unique over a sorted vector
RECURSIVE Unique(_)
Unique(v) ==
    IF Len(v) <= 1 THEN v
    ELSE LET front == Unique(SubSeq(v, 1, Len(v) - 1))
         IN IF front[Len(front)] = v[Len(v)] THEN front ELSE Append(front, v[Len(v)])

\* WgradAttr::init(core, ebc_param, grouped_id)
WgradAttrInit(lps, groups, grouped_id) ==
    LET lookup_ids == groups[grouped_id + 1].lookup_ids
        sorted_lookup_ids == SortByTable(lps, Range(lookup_ids))
        sorted_table_ids ==
            [i \in 1..Len(sorted_lookup_ids) |-> lps[sorted_lookup_ids[i] + 1].table_id]
        unique_table_ids == Unique(sorted_table_ids)
    IN [inited |-> TRUE,
        grouped_id |-> grouped_id,
        num_table |-> Len(unique_table_ids),
        num_lookup |-> Len(lookup_ids),
        lookup_id_to_table_ids |->
            [i \in 1..Len(lookup_ids) |-> lps[lookup_ids[i] + 1].table_id],
        sorted_lookup_ids |-> sorted_lookup_ids,
        sorted_table_ids |-> sorted_table_ids,
        sorted_unique_table_ids |-> unique_table_ids]

\* WgradAttr::get_unique_table_ids, lines 400-402
get_unique_table_ids(attr) ==
    IF attr.num_table = attr.num_lookup
    THEN attr.lookup_id_to_table_ids
    ELSE attr.sorted_unique_table_ids

(***************************************************************************)
(* Wgrad, WgradInitializer and AllreduceWgradInitializer,                  *)
(* common.hpp:405-445.  The member functions are declared here and defined *)
(* elsewhere: their effect on the group's gradient buffer is modelled from *)
(* the specification (4.4, 4.5): Unbound -> IndicesBuilt -> DataBound ->   *)
(* Populated.                                                              *)
(***************************************************************************)
InitializerKinds == {"WgradInitializer", "AllreduceWgradInitializer"}

\* A default-constructed Wgrad (lines 405-416): its tensors are empty, so
\* there are neither index buffers (unique_keys, num_unique_keys, table_ids,
\* ev_start_indices) nor data.  state is the state of the group's gradient
\* buffer, indices whether the index buffers are built, data how the data
\* tensor is bound.
DefaultWgrad == [state |-> "Unbound", indices |-> FALSE, data |-> "none"]

\* Wgrad *wgrad = nullptr (lines 424 and 439)
NewInitializer(kind, grouped_id) ==
    [kind |-> kind, grouped_id |-> grouped_id, wgrad |-> FALSE]

NoInitializer == NewInitializer("none", -1)

\* init(Wgrad &other): binds the initializer to the gradient buffer `other`.
InitializerInit(in) ==
    [in EXCEPT !.wgrad = TRUE]

\* init_indices(): builds the index buffers of the bound gradient buffer w.
InitializerInitIndices(w) ==
    [w EXCEPT !.indices = TRUE,
              !.state = IF @ = "Unbound" THEN "IndicesBuilt" ELSE @]

\* Variant of init_data without the ordering check.
InitializerInitData_NoCheck(w, mode) ==
    [thrown |-> FALSE, w |-> [w EXCEPT !.state = "DataBound", !.data = mode]]

\* init_data(...): binds the gradient rows of the bound gradient buffer w; a
\* fatal ordering violation before the indices are built.  mode is "private"
\* (init_data(), init_data(bool)) or "channel" (init_data(bool, buffer_channel)).
InitializerInitData(w, mode) ==
    IF ~w.indices
    THEN [thrown |-> TRUE, w |-> w]
    ELSE [thrown |-> FALSE, w |-> [w EXCEPT !.state = "DataBound", !.data = mode]]

\* Wgrad::bind_data_ptr(ptr), line 415: binds the data tensor of w to the
\* caller's storage, whatever the index buffers.
BindDataPtr(w) ==
    [w EXCEPT !.state = "DataBound", !.data = "ptr"]

(***************************************************************************)
(* Inputs.                                                                 *)
(***************************************************************************)
Tables == 0..(NumTable - 1)

Gpus == 0..(NumGpu - 1)

\* Lookup lists: element i of the list is lookup id i - 1.
LookupLists ==
    {[i \in 1..Len(s) |-> LookupParam(i - 1, s[i][1], s[i][2], 1, 8)] :
        s \in SeqsUpTo(Tables \X CombinerValues, MaxLookup)}

TableGroupLists ==
    {[i \in 1..Len(s) |-> GroupedTableParam("ModelParallel", AscendingSeq(s[i]))] :
        s \in SeqsUpTo(SUBSET Tables, MaxTableGroup)}

\* The code tells three kinds of shard-matrix entry apart: 0, 1 and any other
\* int (lines 295 and 304); 2 stands for the last kind.
ShardEntries == {0, 1, 2}

ShardMatrices == [1..NumGpu -> [1..NumTable -> ShardEntries]]

AllOnes == [g \in 1..NumGpu |-> [t \in 1..NumTable |-> 1]]

\* num_lookup as a caller gives it for lookup_params lps: lps.size() or one
\* less.  A larger num_lookup makes line 252 read past the end of the vector
\* and is no input here, as an out-of-range id is no input of a query.
NumLookups(lps) == {n \in 0..Len(lps) : n >= Len(lps) - 1}

NoCall ==
    [op |-> "none", gpu_id |-> -1, grouped_id |-> -1, lookup_id |-> -1,
     table_id |-> -1, ret |-> FALSE, thrown |-> FALSE,
     shard_id |-> -1, num_shard |-> -1, ids |-> <<>>]

(***************************************************************************)
(* Construction.                                                           *)
(***************************************************************************)
\* EmbeddingCollectionParam::EmbeddingCollectionParam, lines 218-285
Construct ==
    /\ pc = "config"
    /\ LET r == GroupLookups(lookup_params, num_lookup, grouped_table_params,
                             dense_compression_strategy_, 0, <<>>)
       IN IF r.thrown
          THEN /\ pc' = "failed"
               /\ error' = "IllegalCall"
               /\ grouped_lookup_params' = <<>>
          ELSE /\ pc' = "constructed"
               /\ error' = "none"
               /\ grouped_lookup_params' = r.groups
    /\ UNCHANGED <<num_lookup, lookup_params, shard_matrix,
                   grouped_table_params, dense_compression_strategy_, call,
                   wgrad_attr, output_attr, initializer, wgrad>>

\* dense_compression_strategy_ is a public, non-const data member (line 215)
\* that the constructor neither receives nor assigns: a configuration selects
\* a strategy by assigning the member of a constructed descriptor.  The groups
\* are not rebuilt.
SetDenseCompressionStrategy ==
    /\ pc = "constructed"
    /\ \E s \in DenseCompressionStrategy :
          /\ s # dense_compression_strategy_
          /\ dense_compression_strategy_' = s
    /\ UNCHANGED <<pc, num_lookup, lookup_params, shard_matrix,
                   grouped_table_params, grouped_lookup_params, error, call,
                   wgrad_attr, output_attr, initializer, wgrad>>

(***************************************************************************)
(* Queries of a constructed descriptor.                                    *)
(***************************************************************************)
GroupIds == 0..(Len(grouped_lookup_params) - 1)

\* The lookup ids of the descriptor: [0, num_lookup).
LookupIds == 0..(num_lookup - 1)

HasTableShardCall ==
    /\ pc = "constructed"
    /\ \E gpu_id \in Gpus, grouped_id \in GroupIds, lookup_id \in LookupIds :
          call' = [NoCall EXCEPT
                     !.op = "has_table_shard", !.gpu_id = gpu_id,
                     !.grouped_id = grouped_id, !.lookup_id = lookup_id,
                     !.ret = has_table_shard(lookup_params, shard_matrix,
                                             grouped_lookup_params, gpu_id,
                                             grouped_id, lookup_id)]
    /\ error' = "none"
    /\ UNCHANGED <<descriptor, wgrad_attr, output_attr, initializer, wgrad>>

\* The caller's ints hold -1 before the call.
GetTableShardIdCall ==
    /\ pc = "constructed"
    /\ \E gpu_id \in Gpus, table_id \in Tables :
          LET r == get_table_shard_id(shard_matrix, gpu_id, table_id, -1, -1)
          IN /\ call' = [NoCall EXCEPT
                           !.op = "get_table_shard_id", !.gpu_id = gpu_id,
                           !.table_id = table_id, !.thrown = r.thrown,
                           !.shard_id = r.shard_id, !.num_shard = r.num_shard]
             /\ error' = IF r.thrown
                         THEN "get_table_shard_id does not find shard id"
                         ELSE "none"
    /\ UNCHANGED <<descriptor, wgrad_attr, output_attr, initializer, wgrad>>

(***************************************************************************)
(* Specification of construction: every lookup list and table-group list.  *)
(***************************************************************************)
InitCtor ==
    /\ pc = "config"
    /\ lookup_params \in LookupLists
    /\ num_lookup \in NumLookups(lookup_params)
    /\ shard_matrix = AllOnes
    /\ grouped_table_params \in TableGroupLists
    /\ grouped_lookup_params = <<>>
    \* line 215: the default member initializer
    /\ dense_compression_strategy_ = "Unique"
    /\ error = "none"
    /\ call = NoCall
    /\ wgrad_attr = NoWgradAttr
    /\ output_attr = NoEmbeddingOutputAttr
    /\ initializer = NoInitializer
    /\ wgrad = DefaultWgrad

NextCtor == Construct \/ SetDenseCompressionStrategy

SpecCtor == InitCtor /\ [][NextCtor]_vars

(***************************************************************************)
(* Specification of the shard queries: every shard matrix, for a           *)
(* descriptor with one lookup per table, alternately Concat and Sum, and   *)
(* one table group holding every table (so a Sparse and a Dense group).    *)
(***************************************************************************)
ShardLookups ==
    [i \in 1..NumTable |->
        LookupParam(i - 1, NumTable - i,
                    IF i % 2 = 1 THEN "Concat" ELSE "Sum", 1, 8)]

ShardTableGroups == <<GroupedTableParam("ModelParallel", AscendingSeq(Tables))>>

InitShard ==
    /\ pc = "config"
    /\ lookup_params = ShardLookups
    /\ num_lookup = Len(lookup_params)
    /\ shard_matrix \in ShardMatrices
    /\ grouped_table_params = ShardTableGroups
    /\ grouped_lookup_params = <<>>
    /\ dense_compression_strategy_ = "Unique"
    /\ error = "none"
    /\ call = NoCall
    /\ wgrad_attr = NoWgradAttr
    /\ output_attr = NoEmbeddingOutputAttr
    /\ initializer = NoInitializer
    /\ wgrad = DefaultWgrad

NextShard == Construct \/ HasTableShardCall \/ GetTableShardIdCall

SpecShard == InitShard /\ [][NextShard]_vars

(***************************************************************************)
(* Specification of the gradient-group attributes: every lookup list and   *)
(* table-group list.                                                       *)
(***************************************************************************)
InitWgrad ==
    /\ pc = "config"
    /\ lookup_params \in LookupLists
    /\ num_lookup \in NumLookups(lookup_params)
    /\ shard_matrix = AllOnes
    /\ grouped_table_params \in TableGroupLists
    /\ grouped_lookup_params = <<>>
    /\ dense_compression_strategy_ = "Unique"
    /\ error = "none"
    /\ call = NoCall
    /\ wgrad_attr = DefaultWgradAttr(Indeterminate, Indeterminate)
    /\ output_attr = NoEmbeddingOutputAttr
    /\ initializer = NoInitializer
    /\ wgrad = DefaultWgrad

\* attr.init(core, ebc_param, grouped_id) on a WgradAttr
WgradAttrInitCall ==
    /\ pc = "constructed"
    /\ \E grouped_id \in GroupIds :
          wgrad_attr' = WgradAttrInit(lookup_params, grouped_lookup_params, grouped_id)
    /\ call' = [NoCall EXCEPT !.op = "WgradAttr::init"]
    /\ error' = "none"
    /\ UNCHANGED <<descriptor, output_attr, initializer, wgrad>>

GetUniqueTableIdsCall ==
    /\ wgrad_attr.inited
    /\ call' = [NoCall EXCEPT !.op = "get_unique_table_ids",
                              !.grouped_id = wgrad_attr.grouped_id,
                              !.ids = get_unique_table_ids(wgrad_attr)]
    /\ error' = "none"
    /\ UNCHANGED <<descriptor, wgrad_attr, output_attr, initializer, wgrad>>

NextWgrad == Construct \/ WgradAttrInitCall \/ GetUniqueTableIdsCall

SpecWgrad == InitWgrad /\ [][NextWgrad]_vars

(***************************************************************************)
(* Specification of the output layout: lookup lists of every combiner and  *)
(* vector-size pattern, on a default-constructed attr.                     *)
(* The table of a lookup plays no part in the layout: lookup i refers to   *)
(* table i mod NumTable.                                                   *)
(***************************************************************************)
EvSizes == {8, 16}

OutputLookupLists ==
    {[i \in 1..Len(s) |->
         LookupParam(i - 1, (i - 1) % NumTable, s[i][1], 1, s[i][2])] :
        s \in SeqsUpTo(Combiner \X EvSizes, MaxLookup + 1)}

InitOutput ==
    /\ pc = "config"
    /\ lookup_params \in OutputLookupLists
    /\ num_lookup = Len(lookup_params)
    /\ shard_matrix = AllOnes
    /\ grouped_table_params = ShardTableGroups
    /\ grouped_lookup_params = <<>>
    /\ dense_compression_strategy_ = "Unique"
    /\ error = "none"
    /\ call = NoCall
    /\ wgrad_attr = NoWgradAttr
    /\ output_attr = DefaultEmbeddingOutputAttr(Indeterminate, Indeterminate,
                                                Indeterminate, Indeterminate)
    /\ initializer = NoInitializer
    /\ wgrad = DefaultWgrad

\* attr.init(core, ebc_param) on a default-constructed attr
EmbeddingOutputAttrInitCall ==
    /\ pc = "constructed"
    /\ ~output_attr.inited
    /\ output_attr' = EmbeddingOutputAttrInit(output_attr, lookup_params)
    /\ call' = [NoCall EXCEPT !.op = "EmbeddingOutputAttr::init"]
    /\ error' = "none"
    /\ UNCHANGED <<descriptor, wgrad_attr, initializer, wgrad>>

NextOutput == Construct \/ EmbeddingOutputAttrInitCall

SpecOutput == InitOutput /\ [][NextOutput]_vars

(***************************************************************************)
(* Specification of the wgrad initializers: one initializer at a time, of  *)
(* either kind, for any group of the descriptor.                           *)
(***************************************************************************)
InitInitializer ==
    /\ pc = "config"
    /\ lookup_params \in LookupLists
    /\ num_lookup = Len(lookup_params)
    /\ shard_matrix = AllOnes
    /\ grouped_table_params = ShardTableGroups
    /\ grouped_lookup_params = <<>>
    /\ dense_compression_strategy_ = "Unique"
    /\ error = "none"
    /\ call = NoCall
    /\ wgrad_attr = NoWgradAttr
    /\ output_attr = NoEmbeddingOutputAttr
    /\ initializer = NoInitializer
    /\ wgrad = DefaultWgrad

\* WgradInitializer{core, ebc_param, grouped_id, wgrad_attr} (aggregate)
CreateInitializer ==
    /\ pc = "constructed"
    /\ \E kind \in InitializerKinds, grouped_id \in GroupIds :
          initializer' = NewInitializer(kind, grouped_id)
    /\ call' = [NoCall EXCEPT !.op = "create"]
    /\ error' = "none"
    /\ UNCHANGED <<descriptor, wgrad_attr, output_attr, wgrad>>

\* init(other): other is the Wgrad at hand or a default-constructed one.
InitCall ==
    /\ initializer.kind \in InitializerKinds
    /\ initializer' = InitializerInit(initializer)
    /\ \E other \in {wgrad, DefaultWgrad} : wgrad' = other
    /\ call' = [NoCall EXCEPT !.op = "init"]
    /\ error' = "none"
    /\ UNCHANGED <<descriptor, wgrad_attr, output_attr>>

InitIndicesCall ==
    /\ initializer.kind \in InitializerKinds
    /\ initializer.wgrad
    /\ wgrad' = InitializerInitIndices(wgrad)
    /\ call' = [NoCall EXCEPT !.op = "init_indices"]
    /\ error' = "none"
    /\ UNCHANGED <<descriptor, wgrad_attr, output_attr, initializer>>

InitDataCall ==
    /\ initializer.kind \in InitializerKinds
    /\ initializer.wgrad
    /\ \E mode \in (IF initializer.kind = "WgradInitializer"
                    THEN {"private"} ELSE {"private", "channel"}) :
          LET r == InitializerInitData(wgrad, mode)
          IN /\ wgrad' = r.w
             /\ call' = [NoCall EXCEPT !.op = "init_data", !.thrown = r.thrown]
             /\ error' = IF r.thrown THEN "ContractViolationError" ELSE "none"
    /\ UNCHANGED <<descriptor, wgrad_attr, output_attr, initializer>>

\* w.bind_data_ptr(ptr) on the Wgrad: public, needs no initializer.
BindDataPtrCall ==
    /\ wgrad' = BindDataPtr(wgrad)
    /\ call' = [NoCall EXCEPT !.op = "bind_data_ptr"]
    /\ error' = "none"
    /\ UNCHANGED <<descriptor, wgrad_attr, output_attr, initializer>>

\* A training step repopulates the bound gradient buffer through its index
\* buffers.
TrainingStep ==
    /\ wgrad.state \in {"DataBound", "Populated"}
    /\ wgrad.indices
    /\ wgrad' = [wgrad EXCEPT !.state = "Populated"]
    /\ call' = [NoCall EXCEPT !.op = "step"]
    /\ error' = "none"
    /\ UNCHANGED <<descriptor, wgrad_attr, output_attr, initializer>>

NextInitializer ==
    Construct \/ CreateInitializer \/ InitCall \/ InitIndicesCall
    \/ InitDataCall \/ BindDataPtrCall \/ TrainingStep

SpecInitializer == InitInitializer /\ [][NextInitializer]_vars

(***************************************************************************)
(* Specification of construction over placement strategies: every list of  *)
(* lookups with a supported combiner and every list of pairwise disjoint   *)
(* table groups, each DataParallel or ModelParallel.                       *)
(***************************************************************************)
PlacementLookupLists ==
    {[i \in 1..Len(s) |-> LookupParam(i - 1, s[i][1], s[i][2], 1, 8)] :
        s \in SeqsUpTo(Tables \X Combiner, MaxLookup)}

\* Every table is in at most one table group.
PlacementTableGroupLists ==
    {[i \in 1..Len(s) |-> GroupedTableParam(s[i][1], AscendingSeq(s[i][2]))] :
        s \in {q \in SeqsUpTo(TablePlacementStrategy \X SUBSET Tables,
                              MaxTableGroup) :
                  \A i, j \in 1..Len(q) : i < j => q[i][2] \cap q[j][2] = {}}}

InitPlacement ==
    /\ pc = "config"
    /\ lookup_params \in PlacementLookupLists
    /\ num_lookup \in NumLookups(lookup_params)
    /\ shard_matrix = AllOnes
    /\ grouped_table_params \in PlacementTableGroupLists
    /\ grouped_lookup_params = <<>>
    \* line 215: the default member initializer
    /\ dense_compression_strategy_ = "Unique"
    /\ error = "none"
    /\ call = NoCall
    /\ wgrad_attr = NoWgradAttr
    /\ output_attr = NoEmbeddingOutputAttr
    /\ initializer = NoInitializer
    /\ wgrad = DefaultWgrad

NextPlacement == Construct

SpecPlacement == InitPlacement /\ [][NextPlacement]_vars

(***************************************************************************)
(* Properties.                                                             *)
(***************************************************************************)
\* The table groups (1-based) whose table_ids hold the table of lookup l.
TableGroupsOf(l) ==
    {i \in 1..Len(grouped_table_params) :
        lookup_params[l + 1].table_id \in Range(grouped_table_params[i].table_ids)}

\* The lookup groups (1-based) whose lookup_ids hold lookup l.
LookupGroupsOf(l) ==
    {k \in 1..Len(grouped_lookup_params) :
        l \in Range(grouped_lookup_params[k].lookup_ids)}

\* The lookups of table group i with a combiner in C, in ascending lookup id.
LookupsOf(i, C) ==
    AscendingSeq({l \in LookupIds : i \in TableGroupsOf(l)
                                    /\ lookup_params[l + 1].combiner \in C})

\* The table groups that no configured lookup refers to.
ZeroLookupTableGroups ==
    {i \in 1..Len(grouped_table_params) : \A l \in LookupIds : i \notin TableGroupsOf(l)}

\* The lookups with a combiner other than Sum, Average, Concat.
UnsupportedLookups == {l \in LookupIds : lookup_params[l + 1].combiner \notin Combiner}

EveryLookupInOneTableGroup == \A l \in LookupIds : Cardinality(TableGroupsOf(l)) = 1

\* Configurations with a lookup, num_lookup the number of lookup_params, a
\* table group, and a table in every table group.
OrdinaryConfig ==
    /\ num_lookup = Len(lookup_params)
    /\ num_lookup >= 1
    /\ Len(grouped_table_params) >= 1
    /\ \A i \in 1..Len(grouped_table_params) : grouped_table_params[i].table_ids # <<>>

----------------------------------------------------------------------------
\* C1 as stated (on ordinary configurations): after construction from any
\* lookup list and table-group list, every lookup id in [0, num_lookup) is in
\* the lookup_ids of exactly one lookup group.
C1_AnyConfigPartition ==
    (pc = "constructed" /\ OrdinaryConfig) =>
        \A l \in LookupIds : Cardinality(LookupGroupsOf(l)) = 1

\* C1 amended: after construction from a lookup list and a table-group list
\* in which the table of every lookup id in [0, num_lookup) is in exactly one
\* table group, every lookup id in [0, num_lookup) is in the lookup_ids of
\* exactly one lookup group, once.
C1_Partition ==
    (pc = "constructed" /\ EveryLookupInOneTableGroup) =>
        \A l \in LookupIds :
            /\ Cardinality(LookupGroupsOf(l)) = 1
            /\ \A k \in LookupGroupsOf(l) :
                  Cardinality({j \in 1..Len(grouped_lookup_params[k].lookup_ids) :
                                  grouped_lookup_params[k].lookup_ids[j] = l}) = 1

C1_Witness ==
    /\ pc = "constructed"
    /\ EveryLookupInOneTableGroup
    /\ num_lookup >= 2
    /\ Len(grouped_table_params) >= 2
    /\ Len(grouped_lookup_params) >= 2
    /\ \E l \in LookupIds : lookup_params[l + 1].combiner = "Concat"

----------------------------------------------------------------------------
\* C2: has_table_shard(gpu_id, grouped_id, lookup_id) returns true if and
\* only if the lookup is in the group and the device's shard-matrix entry
\* for the lookup's table is not 0.
C2_HasTableShard ==
    call.op = "has_table_shard" =>
        (call.ret <=>
            /\ call.lookup_id \in
                   Range(grouped_lookup_params[call.grouped_id + 1].lookup_ids)
            /\ shard_matrix[call.gpu_id + 1]
                           [lookup_params[call.lookup_id + 1].table_id + 1] # 0)

\* A lookup of the group on a device without a shard, answered false, where
\* another device holds a shard of that table.
C2_Witness ==
    /\ call.op = "has_table_shard"
    /\ ~call.ret
    /\ call.lookup_id \in Range(grouped_lookup_params[call.grouped_id + 1].lookup_ids)
    /\ shard_matrix[call.gpu_id + 1][lookup_params[call.lookup_id + 1].table_id + 1] = 0
    /\ \E g \in Gpus :
          shard_matrix[g + 1][lookup_params[call.lookup_id + 1].table_id + 1] # 0

----------------------------------------------------------------------------
\* The devices that hold a shard of table t: a non-zero shard-matrix entry,
\* as has_table_shard reads it.
HoldingDevices(t) == {g \in Gpus : shard_matrix[g + 1][t + 1] # 0}

\* C3: for every device that holds a shard of the table, get_table_shard_id
\* returns as shard id the device's position among the holding devices in
\* ascending device index, and as num_shard the number of holding devices.
C3_ShardRank ==
    (call.op = "get_table_shard_id" /\ call.gpu_id \in HoldingDevices(call.table_id)) =>
        /\ ~call.thrown
        /\ call.shard_id =
               Cardinality({g \in HoldingDevices(call.table_id) : g < call.gpu_id})
        /\ call.num_shard = Cardinality(HoldingDevices(call.table_id))

----------------------------------------------------------------------------
\* C4: get_table_shard_id ends in the fatal error, writing neither shard_id
\* nor num_shard, exactly when the device holds no shard of the table.
C4_ShardNotFound ==
    call.op = "get_table_shard_id" =>
        /\ call.thrown <=> call.gpu_id \notin HoldingDevices(call.table_id)
        /\ call.thrown => (call.shard_id = -1 /\ call.num_shard = -1)

----------------------------------------------------------------------------
\* C5: under CacheFrequent, a table group with a Concat lookup and a
\* Sum/Average lookup has exactly three lookup groups: one Sparse group with
\* its Sum/Average lookups and one InfrequentDense group with its Concat
\* lookups, both with the table group's index, and one FrequentDense group
\* of index -1 with its Concat lookups.
C5_CacheFrequentSplit ==
    (pc = "constructed" /\ dense_compression_strategy_ = "CacheFrequent") =>
        \A i \in 1..Len(grouped_table_params) :
            LET tps == grouped_table_params[i].table_placement_strategy
                sparse == LookupsOf(i, {"Sum", "Average"})
                dense == LookupsOf(i, {"Concat"})
                Count(g) == Cardinality({k \in 1..Len(grouped_lookup_params) :
                                            grouped_lookup_params[k] = g})
            IN (sparse # <<>> /\ dense # <<>>) =>
                  /\ Count(GroupedLookupParam(i - 1, tps, sparse, "Sparse")) = 1
                  /\ Count(GroupedLookupParam(i - 1, tps, dense, "InfrequentDense")) = 1
                  /\ Count(GroupedLookupParam(-1, tps, dense, "FrequentDense")) >= 1
                  /\ Cardinality({k \in 1..Len(grouped_lookup_params) :
                        grouped_lookup_params[k].grouped_table_idx = i - 1}) = 2

----------------------------------------------------------------------------
\* C6 as stated (on ordinary configurations): construction with a table
\* group that no lookup refers to ends in a fatal error.
C6_ZeroLookupGroupRejected ==
    (pc # "config" /\ OrdinaryConfig /\ ZeroLookupTableGroups # {}) => pc = "failed"

\* C6 amended: a table group that no lookup refers to is accepted:
\* construction fails only on an unsupported combiner of a lookup of some
\* table group, and a constructed descriptor has no lookup group for such a
\* table group and no lookup group without lookups.
C6_ZeroLookupGroupAccepted ==
    /\ pc = "failed" => \E l \in UnsupportedLookups : TableGroupsOf(l) # {}
    /\ pc = "constructed" =>
          /\ \A i \in ZeroLookupTableGroups : \A k \in 1..Len(grouped_lookup_params) :
                 grouped_lookup_params[k].grouped_table_idx # i - 1
          /\ \A k \in 1..Len(grouped_lookup_params) :
                 grouped_lookup_params[k].lookup_ids # <<>>

C6_Witness ==
    /\ pc = "constructed"
    /\ OrdinaryConfig
    /\ ZeroLookupTableGroups # {}
    /\ Len(grouped_lookup_params) >= 1

----------------------------------------------------------------------------
\* C7: get_unique_table_ids() returns a strictly increasing sequence of
\* table ids of the group's lookups, the deduplicated list, in both branches.
C7_UniqueTableIds ==
    call.op = "get_unique_table_ids" =>
        /\ \A a, b \in 1..Len(call.ids) : a < b => call.ids[a] < call.ids[b]
        /\ Range(call.ids) \subseteq
               {lookup_params[l + 1].table_id :
                   l \in Range(grouped_lookup_params[call.grouped_id + 1].lookup_ids)}
        /\ call.ids = wgrad_attr.sorted_unique_table_ids

----------------------------------------------------------------------------
\* C8: in every sequence of calls, a call of init_data succeeds only when
\* init_indices has built the indices of the group; the index buffers are
\* built only by init_indices; through init, init_indices and init_data the
\* group becomes IndicesBuilt only by init_indices from Unbound and
\* DataBound only by a successful init_data from a state past Unbound; and
\* init_data on an Unbound group fails with ContractViolationError and
\* leaves it Unbound.
C8_InitOrder ==
    [][/\ (call'.op = "init_data" /\ ~call'.thrown) => wgrad.indices
       /\ (wgrad'.indices /\ ~wgrad.indices) => call'.op = "init_indices"
       /\ (wgrad'.state = "IndicesBuilt" /\ wgrad.state # "IndicesBuilt") =>
              (call'.op = "init_indices" /\ wgrad.state = "Unbound")
       /\ (/\ wgrad'.state = "DataBound" /\ wgrad.state # "DataBound"
           /\ call'.op \in {"init", "init_indices", "init_data"}) =>
              /\ call'.op = "init_data" /\ ~call'.thrown
              /\ wgrad.state \in {"IndicesBuilt", "Populated"}
       /\ (call'.op = "init_data" /\ wgrad.state = "Unbound") =>
              /\ call'.thrown
              /\ error' = "ContractViolationError"
              /\ wgrad'.state = "Unbound"]_vars

\* init_data was called on a bound, still Unbound group and failed.
C8_Witness ==
    /\ call.op = "init_data"
    /\ call.thrown
    /\ error = "ContractViolationError"
    /\ initializer.wgrad
    /\ wgrad.state = "Unbound"

----------------------------------------------------------------------------
\* C9 as stated (on ordinary configurations): construction with any lookup
\* whose combiner is not Sum, Average or Concat ends in a fatal error.
C9_AnyUnsupportedCombinerFails ==
    (pc # "config" /\ OrdinaryConfig /\ UnsupportedLookups # {}) => pc = "failed"

\* C9 amended: construction ends in the fatal IllegalCall error, leaving no
\* descriptor, exactly when some lookup with such a combiner refers to a
\* table of at least one table group.
C9_UnsupportedCombinerOfATableGroupFails ==
    pc # "config" =>
        /\ pc = "failed" <=> \E l \in UnsupportedLookups : TableGroupsOf(l) # {}
        /\ pc = "failed" => (error = "IllegalCall" /\ grouped_lookup_params = <<>>)

\* Construction failed on an unsupported lookup that is not the first lookup
\* and whose table is not in the first table group.
C9_Witness ==
    /\ pc = "failed"
    /\ \A l \in UnsupportedLookups : l >= 1 /\ 1 \notin TableGroupsOf(l)
    /\ \E l \in UnsupportedLookups : TableGroupsOf(l) # {}

----------------------------------------------------------------------------
\* C10: the attr lists the lookups in declaration order, the start offset of
\* lookup 0 is 0 and that of lookup i + 1 is that of lookup i plus the
\* vector size of lookup i, and is_ragged holds iff two vector sizes differ.
C10_OutputLayout ==
    output_attr.inited =>
        /\ output_attr.num_lookup = Len(lookup_params)
        /\ Len(output_attr.h_id_to_ev_size) = Len(lookup_params)
        /\ Len(output_attr.h_id_to_ev_start_indices) = Len(lookup_params) + 1
        /\ \A i \in 1..Len(lookup_params) :
              /\ output_attr.h_id_to_ev_size[i] = lookup_params[i].ev_size
              /\ output_attr.h_id_to_combiner[i] = lookup_params[i].combiner
              /\ output_attr.h_id_to_ev_start_indices[i + 1] =
                     output_attr.h_id_to_ev_start_indices[i] + lookup_params[i].ev_size
        /\ output_attr.h_id_to_ev_start_indices[1] = 0
        /\ output_attr.is_ragged <=>
               \E i, j \in 1..Len(lookup_params) :
                   lookup_params[i].ev_size # lookup_params[j].ev_size

\* Vector sizes [8, 8, 16]: start offsets [0, 8, 16], ragged.
C10_Witness ==
    /\ output_attr.inited
    /\ output_attr.h_id_to_ev_size = <<8, 8, 16>>
    /\ SubSeq(output_attr.h_id_to_ev_start_indices, 1, 3) = <<0, 8, 16>>
    /\ output_attr.is_ragged

----------------------------------------------------------------------------
\* C11: whenever has_table_shard(gpu_id, grouped_id, lookup_id) returns true,
\* get_table_shard_id(gpu_id, table id of lookup_id) returns normally, without
\* the fatal "shard not found" error, for every shard matrix, also one with
\* entries other than 0 and 1: the two queries agree on the holding devices.
C11_QueriesAgree ==
    (call.op = "has_table_shard" /\ call.ret) =>
        ~get_table_shard_id(shard_matrix, call.gpu_id,
                            lookup_params[call.lookup_id + 1].table_id,
                            -1, -1).thrown

----------------------------------------------------------------------------
\* C12: under Unique dense compression the table groups are processed in
\* order; each yields one Sparse lookup group iff it has a Sum/Average lookup
\* and one Dense lookup group iff it has a Concat lookup, the Sparse one
\* before the Dense one; every lookup group is non-empty, has the index and
\* the placement strategy of its table group, holds only lookups whose table
\* is in that table group, and none is FrequentDense or InfrequentDense.
C12_UniqueGrouping ==
    (pc = "constructed" /\ dense_compression_strategy_ = "Unique") =>
        LET K == 1..Len(grouped_lookup_params)
            Of(i, type) ==
                {k \in K : /\ grouped_lookup_params[k].grouped_table_idx = i - 1
                           /\ grouped_lookup_params[k].embedding_type = type}
            Has(i, C) ==
                \E l \in LookupIds :
                    /\ i \in TableGroupsOf(l)
                    /\ lookup_params[l + 1].combiner \in C
        IN /\ \A i \in 1..Len(grouped_table_params) :
                 /\ Cardinality(Of(i, "Sparse")) =
                        IF Has(i, {"Sum", "Average"}) THEN 1 ELSE 0
                 /\ Cardinality(Of(i, "Dense")) =
                        IF Has(i, {"Concat"}) THEN 1 ELSE 0
                 /\ \A s \in Of(i, "Sparse"), d \in Of(i, "Dense") : s < d
           /\ \A k \in K :
                 LET g == grouped_lookup_params[k]
                 IN /\ g.embedding_type \in {"Sparse", "Dense"}
                    /\ g.lookup_ids # <<>>
                    /\ g.grouped_table_idx \in 0..(Len(grouped_table_params) - 1)
                    /\ g.table_placement_strategy =
                           grouped_table_params[g.grouped_table_idx + 1]
                               .table_placement_strategy
                    /\ \A l \in Range(g.lookup_ids) :
                           g.grouped_table_idx + 1 \in TableGroupsOf(l)
           /\ \A k1, k2 \in K :
                 k1 < k2 => grouped_lookup_params[k1].grouped_table_idx
                                <= grouped_lookup_params[k2].grouped_table_idx

\* A descriptor whose second or later table group has a Sum/Average lookup
\* and a Concat lookup, after a table group of the other placement strategy.
C12_Witness ==
    /\ pc = "constructed"
    /\ dense_compression_strategy_ = "Unique"
    /\ \E i, j \in 1..Len(grouped_table_params) :
          /\ i < j
          /\ grouped_table_params[i].table_ids # <<>>
          /\ grouped_table_params[i].table_placement_strategy
                 # grouped_table_params[j].table_placement_strategy
          /\ LookupsOf(j, {"Sum", "Average"}) # <<>>
          /\ LookupsOf(j, {"Concat"}) # <<>>
    /\ Len(grouped_lookup_params) >= 2

====
